---------------------------- MODULE Spec2Model ----------------------------
(***************************************************************************)
(* Numberdle: the feedback-and-constraint engine of                        *)
(* numberdle_streamlit_app_v6_semiliveinput.py (n_v5_saved.py holds the    *)
(* same engine).                                                           *)
(*                                                                         *)
(* Python values are modelled as follows.  A str and a list are a          *)
(* sequence; At(s, i) reads the 0-based index i.  A digit character is a   *)
(* one-character string "0".."9".  A dict (dict, defaultdict, Counter) is  *)
(* the sequence of its <<key, value>> pairs in insertion order, which is   *)
(* the order Python iterates it in.  A set of positions is a set of        *)
(* integers 0..4, iterated in ascending order (CPython's order for small   *)
(* non-negative integers).  A formatted message is the record of the       *)
(* fields the f-string interpolates.                                       *)
(***************************************************************************)
EXTENDS Integers, Sequences, FiniteSets, TLC

VARIABLES
    secret,             \* st.session_state.secret
    round,              \* st.session_state.round
    grid,               \* st.session_state.grid: 6 rows of 5 cells
    status,             \* st.session_state.status: 6 rows of 5 tags
    done,               \* st.session_state.done
    win,                \* st.session_state.win
    hints,              \* st.session_state.hints: 6 lists of hint strings
    current_input,      \* st.session_state.current_input
    error,              \* st.session_state.error
    mode,               \* st.session_state.mode
    stats_file,         \* the content of STATS_PATH
    last_solved_tries,  \* st.session_state.last_solved_tries
    last10_avg,         \* st.session_state.last10_avg
    hash_salt,          \* the salt of str hashing in this process
    ret                 \* the function last applied, with the value it
                        \* returned or the calls it made

vars == <<secret, round, grid, status, done, win, hints, current_input,
          error, mode, stats_file, last_solved_tries, last10_avg, hash_salt,
          ret>>

-----------------------------------------------------------------------------
(* Bounds of the model.                                                    *)

\* Inputs of the scorer are all the 5-digit strings over "0"..MaxDigit.
MaxDigit == 1

\* Histories of the validator hold at most MaxHistory scored rounds.
MaxHistory == 2

\* The texts cleaned hold at most MaxRawLen characters.
MaxRawLen == 6

\* A new game starts while the tries in the score record sum to less than
\* MaxTriesRecorded.
MaxTriesRecorded == 1

-----------------------------------------------------------------------------
(* Program constants.                                                      *)

\* n = 5: the length of a secret and of a guess.
N == 5

\* The board has 6 rows: init_state builds range(6) rows.
Rows == 6

\* defaultdict(lambda: 5): the default of max_count.
DefaultMax == 5

DigitChars == <<"0", "1", "2", "3", "4", "5", "6", "7", "8", "9">>

Digit == {DigitChars[i] : i \in 1..10}

Pos == 0..(N - 1)

Modes == {"Normal", "Hard", "Ultra"}

-----------------------------------------------------------------------------
(* Python values.                                                          *)

At(s, i) == s[i + 1]

Word(a, b, c, d, e) == <<a, b, c, d, e>>

\* All the strings of length N over the characters of set S.
WordsOver(S) == [1..N -> S]

\* str.count / Counter(guess).get(d, 0)
Count(s, d) == Cardinality({i \in 1..Len(s) : s[i] = d})

DictHas(dict, k) == \E i \in 1..Len(dict) : dict[i][1] = k

DictGet(dict, k, default) ==
    IF DictHas(dict, k)
    THEN dict[CHOOSE i \in 1..Len(dict) : dict[i][1] = k][2]
    ELSE default

\* dict[k] = v: a new key goes last, an old key keeps its place.
DictPut(dict, k, v) ==
    IF DictHas(dict, k)
    THEN [i \in 1..Len(dict) |-> IF dict[i][1] = k THEN <<k, v>> ELSE dict[i]]
    ELSE Append(dict, <<k, v>>)

\* None; a value v that may be None is held as <<v>>.
None == <<>>

\* The empty message "".
NoMsg == [kind |-> "none"]

Min(a, b) == IF a < b THEN a ELSE b

Max(a, b) == IF a > b THEN a ELSE b

-----------------------------------------------------------------------------
(* evaluate_guess: the scorer.                                             *)

\* A first pass over range(n - 1): the last position is never compared.
RECURSIVE ScorePass1ShortLoop(_, _, _, _, _)
ScorePass1ShortLoop(sec, guess, i, st, remain) ==
    IF i >= N - 1 THEN [status |-> st, remain |-> remain]
    ELSE IF At(guess, i) = At(sec, i)
         THEN ScorePass1ShortLoop(sec, guess, i + 1,
                                  [st EXCEPT ![i + 1] = "green"], remain)
         ELSE ScorePass1ShortLoop(sec, guess, i + 1, st,
                                  DictPut(remain, At(sec, i),
                                          DictGet(remain, At(sec, i), 0) + 1))

\* A scorer that takes the secret's digit into the tally on a green too.
RECURSIVE ScorePass1CountsGreens(_, _, _, _, _)
ScorePass1CountsGreens(sec, guess, i, st, remain) ==
    IF i >= N THEN [status |-> st, remain |-> remain]
    ELSE ScorePass1CountsGreens(sec, guess, i + 1,
             IF At(guess, i) = At(sec, i)
             THEN [st EXCEPT ![i + 1] = "green"] ELSE st,
             DictPut(remain, At(sec, i), DictGet(remain, At(sec, i), 0) + 1))

\* Pass 1 (lines 26-31) from position i on: greens, and the tally of the
\* secret's digits that were not matched in place.
RECURSIVE ScorePass1(_, _, _, _, _)
ScorePass1(sec, guess, i, st, remain) ==
    IF i >= N THEN [status |-> st, remain |-> remain]
    ELSE IF At(guess, i) = At(sec, i)
         THEN ScorePass1(sec, guess, i + 1,
                         [st EXCEPT ![i + 1] = "green"], remain)
         ELSE ScorePass1(sec, guess, i + 1, st,
                         DictPut(remain, At(sec, i),
                                 DictGet(remain, At(sec, i), 0) + 1))

\* A second pass without the "continue" on a green position.
RECURSIVE ScorePass2NoSkipGreen(_, _, _, _)
ScorePass2NoSkipGreen(guess, i, st, remain) ==
    IF i >= N THEN st
    ELSE IF DictGet(remain, At(guess, i), 0) > 0
         THEN ScorePass2NoSkipGreen(guess, i + 1,
                  [st EXCEPT ![i + 1] = "yellow"],
                  DictPut(remain, At(guess, i),
                          DictGet(remain, At(guess, i), 0) - 1))
         ELSE ScorePass2NoSkipGreen(guess, i + 1, st, remain)

\* A second pass that runs from the last position to the first.
RECURSIVE ScorePass2RightToLeft(_, _, _, _)
ScorePass2RightToLeft(guess, i, st, remain) ==
    IF i >= N THEN st
    ELSE LET j == N - 1 - i IN
         IF At(st, j) = "green"
         THEN ScorePass2RightToLeft(guess, i + 1, st, remain)
         ELSE IF DictGet(remain, At(guess, j), 0) > 0
              THEN ScorePass2RightToLeft(guess, i + 1,
                       [st EXCEPT ![j + 1] = "yellow"],
                       DictPut(remain, At(guess, j),
                               DictGet(remain, At(guess, j), 0) - 1))
              ELSE ScorePass2RightToLeft(guess, i + 1, st, remain)

\* Pass 2 (lines 32-38) from position i on: yellows, left to right.
RECURSIVE ScorePass2(_, _, _, _)
ScorePass2(guess, i, st, remain) ==
    IF i >= N THEN st
    ELSE IF At(st, i) = "green"
         THEN ScorePass2(guess, i + 1, st, remain)
         ELSE IF DictGet(remain, At(guess, i), 0) > 0
              THEN ScorePass2(guess, i + 1, [st EXCEPT ![i + 1] = "yellow"],
                              DictPut(remain, At(guess, i),
                                      DictGet(remain, At(guess, i), 0) - 1))
              ELSE ScorePass2(guess, i + 1, st, remain)

AllGray == [i \in 1..N |-> "gray"]

EvaluateGuess(sec, guess) ==
    LET p1 == ScorePass1(sec, guess, 0, AllGray, <<>>)
    IN  ScorePass2(guess, 0, p1.status, p1.remain)

-----------------------------------------------------------------------------
(* gen_clues: the hint generator.                                          *)

\* int(ch) of a digit character.
DigitVal(ch) == (CHOOSE i \in 1..10 : DigitChars[i] = ch) - 1

\* int(s) of a string of digits, read from character i on.
RECURSIVE IntFrom(_, _, _)
IntFrom(s, i, acc) ==
    IF i > Len(s) THEN acc ELSE IntFrom(s, i + 1, acc * 10 + DigitVal(s[i]))

IntOf(s) == IntFrom(s, 1, 0)

Pow10(k) == IF k = 0 THEN 1 ELSE IF k = 1 THEN 10 ELSE IF k = 2 THEN 100
            ELSE IF k = 3 THEN 1000 ELSE 10000

\* f"{v:05d}" for 0 <= v <= 99999.
Format05(v) == [i \in 1..N |-> DigitChars[((v \div Pow10(N - i)) % 10) + 1]]

\* clamp_range_around_guess(guess, secret)
ClampRangeAroundGuess(guess, sec) ==
    LET g == IntOf(guess)
        s == IntOf(sec)
        lo == Min(g, s)
        hi == Max(g, s)
        pad == Max(50, (hi - lo) \div 5)
    IN  <<Max(0, lo - pad), Min(99999, hi + pad)>>

\* hash((secret, round_idx)) & 0xFFFFFFFF: a function of the secret, the
\* round and the process's hash salt, and of nothing else; a value below
\* 2^32.
HashSeed(sec, round_idx) ==
    IntOf(sec) * 31 + round_idx * 7 + hash_salt * 13

\* rng.choice([(0,1),(1,2),(2,3),(3,4)]) of the generator seeded with seed.
RngChoice(seed) == LET c == seed % 4 IN <<c, c + 1>>

\* rng.sample(range(5), k=2) of the same generator: two distinct indices,
\* in the order drawn.
RngSample(seed) ==
    LET q == (seed \div 4) % 20
        a == q \div 4
        b == q % 4
    IN  <<a, IF b >= a THEN b + 1 ELSE b>>

\* The five candidate facts of lines 53-59, in their order.
Clues(sec, guess, seed) ==
    LET range == ClampRangeAroundGuess(guess, sec)
        pair == RngChoice(seed)
        di == DigitVal(At(sec, pair[1]))
        dj == DigitVal(At(sec, pair[2]))
    IN  << [kind |-> "range", lo |-> Format05(range[1]),
            hi |-> Format05(range[2])],
           [kind |-> "parity", even |-> (IntOf(sec) % 2 = 0)],
           [kind |-> "sum_mod3",
            value |-> (DigitVal(sec[1]) + DigitVal(sec[2]) + DigitVal(sec[3])
                         + DigitVal(sec[4]) + DigitVal(sec[5])) % 3],
           [kind |-> "pair", first |-> pair[1] + 1, second |-> pair[2] + 1,
            rel |-> IF di < dj THEN "<" ELSE IF di > dj THEN ">" ELSE "="],
           [kind |-> "repeat",
            repeats |-> Cardinality({sec[i] : i \in 1..N}) < N] >>

\* A generator that returns the two facts in the order sampled.
GenCluesInSampleOrder(sec, guess, round_idx) ==
    LET seed == HashSeed(sec, round_idx)
        pick == RngSample(seed)
        clues == Clues(sec, guess, seed)
    IN  <<At(clues, pick[1]), At(clues, pick[2])>>

\* A generator seeded from the guess instead of the secret.
GenCluesSeededByGuess(sec, guess, round_idx) ==
    LET seed == HashSeed(guess, round_idx)
        pick == RngSample(seed)
        clues == Clues(sec, guess, seed)
    IN  <<At(clues, Min(pick[1], pick[2])), At(clues, Max(pick[1], pick[2]))>>

\* gen_clues(secret, guess, round_idx)
GenClues(sec, guess, round_idx) ==
    LET seed == HashSeed(sec, round_idx)
        pick == RngSample(seed)
        clues == Clues(sec, guess, seed)
    IN  <<At(clues, Min(pick[1], pick[2])), At(clues, Max(pick[1], pick[2]))>>

\* The string of a fact as lines 53-59 format it: a sequence of its digit
\* characters and of the pieces of text between them.
HintText(c) ==
    CASE c.kind = "range" ->
            <<"The number is between ">> \o c.lo \o <<" and ">> \o c.hi
                \o <<".">>
      [] c.kind = "parity" ->
            IF c.even THEN <<"It is an even number.">>
            ELSE <<"It is an odd number.">>
      [] c.kind = "sum_mod3" ->
            <<"Sum of digits ", DigitChars[c.value + 1], " (mod ", "3", ").">>
      [] c.kind = "pair" ->
            <<"Digit ", DigitChars[c.first + 1], " ", c.rel, " digit ",
              DigitChars[c.second + 1], ".">>
      [] c.kind = "repeat" ->
            IF c.repeats THEN <<"At least one digit repeats.">>
            ELSE <<"All digits are distinct.">>

-----------------------------------------------------------------------------
(* _build_knowledge: the knowledge aggregator.                             *)

\* defaultdict: reading a missing key stores the default under it.
DictTouch(dict, k, default) ==
    IF DictHas(dict, k) THEN dict ELSE Append(dict, <<k, default>>)

\* counts = Counter([d for d in row if d != ""]) (line 115), from cell i on.
RECURSIVE RowCounts(_, _, _)
RowCounts(row, i, counts) ==
    IF i >= N THEN counts
    ELSE IF At(row, i) = ""
         THEN RowCounts(row, i + 1, counts)
         ELSE RowCounts(row, i + 1,
                        DictPut(counts, At(row, i),
                                DictGet(counts, At(row, i), 0) + 1))

NoKnowledge ==
    [greens |-> <<>>, min_count |-> <<>>, max_count |-> <<>>,
     banned_yellow |-> <<>>, banned_all |-> <<>>, matches |-> <<>>]

\* A scan that bans a yellow position in banned_yellow only.
RECURSIVE ScanRowYellowOnly(_, _, _, _)
ScanRowYellowOnly(row, sts, i, K) ==
    IF i >= N THEN K
    ELSE LET d == At(row, i)
             s == At(sts, i)
         IN  IF d = "" THEN ScanRowYellowOnly(row, sts, i + 1, K)
             ELSE IF s = "green"
             THEN ScanRowYellowOnly(row, sts, i + 1,
                    [K EXCEPT !.greens = DictPut(@, i, d),
                              !.matches = DictPut(@, d, DictGet(@, d, 0) + 1)])
             ELSE IF s = "yellow"
             THEN ScanRowYellowOnly(row, sts, i + 1,
                    [K EXCEPT !.banned_yellow =
                                  DictPut(@, d, DictGet(@, d, {}) \cup {i}),
                              !.matches = DictPut(@, d, DictGet(@, d, 0) + 1)])
             ELSE ScanRowYellowOnly(row, sts, i + 1, K)

\* Lines 119-133, from cell i on: greens, yellow bans and the round's
\* matches.  K.matches is the Counter of the row being scanned.
RECURSIVE ScanRow(_, _, _, _)
ScanRow(row, sts, i, K) ==
    IF i >= N THEN K
    ELSE LET d == At(row, i)
             s == At(sts, i)
         IN  IF d = "" THEN ScanRow(row, sts, i + 1, K)
             ELSE IF s = "green"
             THEN ScanRow(row, sts, i + 1,
                    [K EXCEPT !.greens = DictPut(@, i, d),
                              !.matches = DictPut(@, d, DictGet(@, d, 0) + 1)])
             ELSE IF s = "yellow"
             THEN ScanRow(row, sts, i + 1,
                    [K EXCEPT !.banned_yellow =
                                  DictPut(@, d, DictGet(@, d, {}) \cup {i}),
                              !.banned_all =
                                  DictPut(@, d, DictGet(@, d, {}) \cup {i}),
                              !.matches = DictPut(@, d, DictGet(@, d, 0) + 1)])
             ELSE ScanRow(row, sts, i + 1, K)

\* An aggregator that adds each round's matches to min_count.
RECURSIVE UpdateMinCountsAdds(_, _, _)
UpdateMinCountsAdds(matches, n, min_count) ==
    IF n > Len(matches) THEN min_count
    ELSE LET d == matches[n][1]
             k == matches[n][2]
             touched == DictTouch(min_count, d, 0)
         IN  UpdateMinCountsAdds(matches, n + 1,
                 DictPut(touched, d, DictGet(touched, d, 0) + k))

\* Lines 136-138, from entry n of matches on.
RECURSIVE UpdateMinCounts(_, _, _)
UpdateMinCounts(matches, n, min_count) ==
    IF n > Len(matches) THEN min_count
    ELSE LET d == matches[n][1]
             k == matches[n][2]
             touched == DictTouch(min_count, d, 0)
         IN  UpdateMinCounts(matches, n + 1,
                 IF k > DictGet(touched, d, 0)
                 THEN DictPut(touched, d, k) ELSE touched)

\* Lines 152-155: the cells of the row where digit d is gray.
GrayCells(row, sts, d) == {i \in Pos : At(row, i) = d /\ At(sts, i) = "gray"}

\* An aggregator that never turns a gray cell into a position ban.
UltraGateNever(m) == FALSE

\* Line 152: the gray-derived position bans are recorded in Ultra only.
UltraGate(m) == m = "Ultra"

\* Lines 149-150: cap a matched digit by the round's matches.
CapByMatches(max_count, d, k, row, sts) ==
    LET touched == DictTouch(max_count, d, DefaultMax)
    IN  IF DictGet(touched, d, DefaultMax) > k
        THEN DictPut(touched, d, k) ELSE touched

\* An aggregator that leaves an unmatched digit uncapped.
CapAbsentNever(max_count, d) == DictTouch(max_count, d, DefaultMax)

\* Line 146: a digit guessed with no match is capped at 0.
CapAbsent(max_count, d) ==
    DictPut(max_count, d, Min(DictGet(max_count, d, DefaultMax), 0))

\* Lines 141-155, from entry n of counts on.
RECURSIVE UpdateMaxCounts(_, _, _, _, _, _)
UpdateMaxCounts(counts, n, row, sts, m, K) ==
    IF n > Len(counts) THEN K
    ELSE LET d == counts[n][1]
             k == DictGet(K.matches, d, 0)
         IN  IF k = 0
             THEN UpdateMaxCounts(counts, n + 1, row, sts, m,
                      [K EXCEPT !.max_count = CapAbsent(@, d)])
             ELSE UpdateMaxCounts(counts, n + 1, row, sts, m,
                      [K EXCEPT
                          !.max_count = CapByMatches(@, d, k, row, sts),
                          !.banned_all =
                              IF UltraGate(m) /\ GrayCells(row, sts, d) # {}
                              THEN DictPut(@, d, DictGet(@, d, {})
                                                    \cup GrayCells(row, sts, d))
                              ELSE @])

\* Line 113: "if not row or not sts: continue".  A row is a list of 5
\* cells, so it is skipped only when it is the empty list.
RowSkipped(row, sts) == Len(row) = 0 \/ Len(sts) = 0

\* Lines 109-155, from row r on, over the board g and the verdicts st.
RECURSIVE FoldRounds(_, _, _, _, _, _)
FoldRounds(g, st, r, upto_round, m, K) ==
    IF r >= upto_round THEN K
    ELSE LET row == At(g, r)
             sts == At(st, r)
         IN  IF RowSkipped(row, sts)
             THEN FoldRounds(g, st, r + 1, upto_round, m, K)
             ELSE LET scanned == ScanRow(row, sts, 0,
                                         [K EXCEPT !.matches = <<>>])
                      withMin == [scanned EXCEPT !.min_count =
                                     UpdateMinCounts(scanned.matches, 1, @)]
                  IN  FoldRounds(g, st, r + 1, upto_round, m,
                          UpdateMaxCounts(RowCounts(row, 0, <<>>), 1,
                                          row, sts, m, withMin))

\* _build_knowledge(upto_round, mode), reading the session's grid and status.
BuildKnowledge(upto_round, m) ==
    LET K == FoldRounds(grid, status, 0, upto_round, m, NoKnowledge)
    IN  [greens |-> K.greens, min_count |-> K.min_count,
         max_count |-> K.max_count, banned_yellow |-> K.banned_yellow,
         banned_all |-> K.banned_all]

-----------------------------------------------------------------------------
(* _validate_guess_against_history: the guess validator.                   *)

Ok == [ok |-> TRUE, msg |-> NoMsg]

Rejected(msg) == [ok |-> FALSE, msg |-> msg]

\* A green check that reports the 0-based position.
RECURSIVE CheckGreensZeroBased(_, _, _)
CheckGreensZeroBased(greens, n, guess) ==
    IF n > Len(greens) THEN NoMsg
    ELSE IF At(guess, greens[n][1]) # greens[n][2]
         THEN [kind |-> "green", pos |-> greens[n][1], digit |-> greens[n][2]]
         ELSE CheckGreensZeroBased(greens, n + 1, guess)

\* Lines 168-170, from entry n of greens on: the first green the guess
\* breaks, or NoMsg.
RECURSIVE CheckGreens(_, _, _)
CheckGreens(greens, n, guess) ==
    IF n > Len(greens) THEN NoMsg
    ELSE IF At(guess, greens[n][1]) # greens[n][2]
         THEN [kind |-> "green", pos |-> greens[n][1] + 1,
               digit |-> greens[n][2]]
         ELSE CheckGreens(greens, n + 1, guess)

\* A validator that enforces no minimum count.
CheckMinCountsSkipped(min_count, n, guess) == NoMsg

\* Lines 176-179, from entry n of min_count on.
RECURSIVE CheckMinCounts(_, _, _)
CheckMinCounts(min_count, n, guess) ==
    IF n > Len(min_count) THEN NoMsg
    ELSE LET d == min_count[n][1]
             mn == min_count[n][2]
         IN  IF Count(guess, d) < mn
             THEN [kind |-> "min", digit |-> d, mn |-> mn,
                   needed |-> mn - Count(guess, d)]
             ELSE CheckMinCounts(min_count, n + 1, guess)

\* Lines 180-183 and 193-196, from entry n of a ban dict on: the first
\* banned position, in ascending order, where the guess holds the digit.
RECURSIVE CheckBanned(_, _, _, _)
CheckBanned(banned, n, guess, kind) ==
    IF n > Len(banned) THEN NoMsg
    ELSE LET d == banned[n][1]
             hit == {i \in banned[n][2] : At(guess, i) = d}
         IN  IF hit # {}
             THEN [kind |-> kind, digit |-> d,
                   pos |-> (CHOOSE i \in hit : \A j \in hit : i <= j) + 1]
             ELSE CheckBanned(banned, n + 1, guess, kind)

\* A cap check that only rejects a digit capped at 0 (line 190 left out).
RECURSIVE CheckMaxCountsZeroOnly(_, _, _)
CheckMaxCountsZeroOnly(max_count, n, guess) ==
    IF n > Len(max_count) THEN NoMsg
    ELSE LET d == max_count[n][1]
             mx == max_count[n][2]
         IN  IF mx = 0 /\ Count(guess, d) > 0
             THEN [kind |-> "absent", digit |-> d]
             ELSE CheckMaxCountsZeroOnly(max_count, n + 1, guess)

\* Lines 187-191, from entry n of max_count on.
RECURSIVE CheckMaxCounts(_, _, _)
CheckMaxCounts(max_count, n, guess) ==
    IF n > Len(max_count) THEN NoMsg
    ELSE LET d == max_count[n][1]
             mx == max_count[n][2]
         IN  IF mx = 0 /\ Count(guess, d) > 0
             THEN [kind |-> "absent", digit |-> d]
             ELSE IF Count(guess, d) > mx
             THEN [kind |-> "max", digit |-> d, mx |-> mx]
             ELSE CheckMaxCounts(max_count, n + 1, guess)

\* A validator that applies the caps and the gray bans in Hard too.
RunChecksCapsInHard(K, guess, m) ==
    LET g == CheckGreens(K.greens, 1, guess)
        mn == CheckMinCounts(K.min_count, 1, guess)
        y == CheckBanned(K.banned_yellow, 1, guess, "yellow")
        mx == CheckMaxCounts(K.max_count, 1, guess)
        a == CheckBanned(K.banned_all, 1, guess, "ruled_out")
    IN  IF g # NoMsg THEN Rejected(g)
        ELSE IF mn # NoMsg THEN Rejected(mn)
        ELSE IF y # NoMsg THEN Rejected(y)
        ELSE IF mx # NoMsg THEN Rejected(mx)
        ELSE IF a # NoMsg THEN Rejected(a)
        ELSE Ok

\* A validator that checks the minimum counts before the greens.
RunChecksMinFirst(K, guess, m) ==
    LET g == CheckGreens(K.greens, 1, guess)
        mn == CheckMinCounts(K.min_count, 1, guess)
        y == CheckBanned(K.banned_yellow, 1, guess, "yellow")
        mx == CheckMaxCounts(K.max_count, 1, guess)
        a == CheckBanned(K.banned_all, 1, guess, "ruled_out")
    IN  IF mn # NoMsg THEN Rejected(mn)
        ELSE IF g # NoMsg THEN Rejected(g)
        ELSE IF y # NoMsg THEN Rejected(y)
        ELSE IF m = "Ultra" /\ mx # NoMsg THEN Rejected(mx)
        ELSE IF m = "Ultra" /\ a # NoMsg THEN Rejected(a)
        ELSE Ok

\* The checks of lines 165-198 in their order; the first that fails gives
\* the message.
RunChecks(K, guess, m) ==
    LET g == CheckGreens(K.greens, 1, guess)
        mn == CheckMinCounts(K.min_count, 1, guess)
        y == CheckBanned(K.banned_yellow, 1, guess, "yellow")
        mx == CheckMaxCounts(K.max_count, 1, guess)
        a == CheckBanned(K.banned_all, 1, guess, "ruled_out")
    IN  IF g # NoMsg THEN Rejected(g)
        ELSE IF mn # NoMsg THEN Rejected(mn)
        ELSE IF y # NoMsg THEN Rejected(y)
        ELSE IF m = "Ultra" /\ mx # NoMsg THEN Rejected(mx)
        ELSE IF m = "Ultra" /\ a # NoMsg THEN Rejected(a)
        ELSE Ok

\* A validator that checks history in every mode.
ModeGatedAlways(m) == TRUE

\* Line 162: only Hard and Ultra check the history.
ModeGated(m) == m \in {"Hard", "Ultra"}

\* _validate_guess_against_history(guess, mode)
ValidateGuessAgainstHistory(guess, m) ==
    IF ~ModeGated(m) THEN Ok
    ELSE RunChecks(BuildKnowledge(round, m), guess, m)

-----------------------------------------------------------------------------
(* Session state.                                                          *)

EmptyRow == [i \in 1..N |-> ""]

EmptyGrid == [r \in 1..Rows |-> EmptyRow]

NoRet == [fn |-> "none"]

\* The session right after init_state with secret s, before any input.
FreshSession(s, m) ==
    /\ secret = s
    /\ round = 0
    /\ grid = EmptyGrid
    /\ status = EmptyGrid
    /\ done = FALSE
    /\ win = FALSE
    /\ hints = [r \in 1..Rows |-> <<>>]
    /\ current_input = <<>>
    /\ error = NoMsg
    /\ mode = m
    /\ stats_file = <<>>
    /\ last_solved_tries = None
    /\ last10_avg = None
    /\ hash_salt = 0

-----------------------------------------------------------------------------
(* SpecScore: evaluate_guess applied to every secret and guess over        *)
(* "0"..MaxDigit, and to the spec's fixture.                               *)

ScoreDigits == {DigitChars[i] : i \in 1..(MaxDigit + 1)}

ScoreWords ==
    WordsOver(ScoreDigits)
        \cup {Word("1", "1", "2", "2", "3"), Word("2", "1", "3", "2", "1")}

InitScore ==
    /\ \E s \in ScoreWords : FreshSession(s, "Normal")
    /\ ret = NoRet

\* status = evaluate_guess(secret, guess)
CallEvaluateGuess ==
    /\ ret = NoRet
    /\ \E g \in ScoreWords :
          ret' = [fn |-> "evaluate_guess", guess |-> g,
                  value |-> EvaluateGuess(secret, g)]
    /\ UNCHANGED <<secret, round, grid, status, done, win, hints,
                   current_input, error, mode, stats_file,
                   last_solved_tries, last10_avg, hash_salt>>

NextScore == CallEvaluateGuess

SpecScore == InitScore /\ [][NextScore]_vars

-----------------------------------------------------------------------------
(* SpecValidate: _validate_guess_against_history applied to a candidate    *)
(* in a session that has scored a history of at most MaxHistory guesses.   *)

\* The secrets of the sessions.
VSecrets ==
    {Word("1", "1", "2", "2", "3"), Word("1", "0", "0", "0", "0"),
     Word("2", "0", "3", "0", "2")}

\* The guesses a history is made of.
VGuesses ==
    {Word("1", "2", "3", "4", "5"), Word("1", "1", "1", "1", "1"),
     Word("2", "1", "3", "2", "1"), Word("1", "0", "0", "0", "0"),
     Word("0", "2", "2", "1", "1")}

\* The candidates validated: every string over "0", "1" and over "1", "2",
\* and the others named above and in the scenarios of the specification.
VCands ==
    WordsOver({"0", "1"}) \cup WordsOver({"1", "2"})
        \cup VSecrets \cup VGuesses
        \cup {Word("1", "2", "9", "9", "9"), Word("2", "2", "9", "9", "9")}

\* The sequences of at most MaxHistory guesses, none of them the secret s:
\* a guess equal to the secret ends the game.
Histories(s) ==
    UNION {[1..n -> VGuesses \ {s}] : n \in 0..MaxHistory}

\* The session after the guesses of h were scored against s as misses
\* (submit_guess, lines 236-255), the mode being m now.
SessionAfter(s, h, m) ==
    /\ secret = s
    /\ round = Len(h)
    /\ grid = [r \in 1..Rows |-> IF r <= Len(h) THEN h[r] ELSE EmptyRow]
    /\ status = [r \in 1..Rows |->
                    IF r <= Len(h) THEN EvaluateGuess(s, h[r]) ELSE EmptyRow]
    /\ done = FALSE
    /\ win = FALSE
    /\ hash_salt = 0
    /\ hints = [r \in 1..Rows |->
                   IF r <= Len(h) THEN GenClues(s, h[r], r - 1) ELSE <<>>]
    /\ current_input = <<>>
    /\ error = NoMsg
    /\ mode = m
    /\ stats_file = <<>>
    /\ last_solved_tries = None
    /\ last10_avg = None

InitValidate ==
    /\ \E s \in VSecrets : \E h \in Histories(s) : \E m \in Modes :
          SessionAfter(s, h, m)
    /\ ret = NoRet

\* ok, msg = _validate_guess_against_history(guess, mode)
CallValidate ==
    /\ ret = NoRet
    /\ \E c \in VCands :
          ret' = [fn |-> "validate", guess |-> c,
                  value |-> ValidateGuessAgainstHistory(c, mode)]
    /\ UNCHANGED <<secret, round, grid, status, done, win, hints,
                   current_input, error, mode, stats_file,
                   last_solved_tries, last10_avg, hash_salt>>

\* An aggregation that empties the verdict rows it has read.
CallBuildKnowledgeConsumesRows ==
    /\ ret = NoRet
    /\ ret' = [fn |-> "build_knowledge",
               value |-> BuildKnowledge(round, mode)]
    /\ status' = EmptyGrid
    /\ UNCHANGED <<secret, round, grid, done, win, hints, current_input,
                   error, mode, stats_file, last_solved_tries, last10_avg,
                   hash_salt>>

\* K = _build_knowledge(round, mode): lines 101-157 assign to locals only.
CallBuildKnowledge ==
    /\ ret = NoRet
    /\ ret' = [fn |-> "build_knowledge",
               value |-> BuildKnowledge(round, mode)]
    /\ UNCHANGED <<secret, round, grid, status, done, win, hints,
                   current_input, error, mode, stats_file,
                   last_solved_tries, last10_avg, hash_salt>>

NextValidate == CallValidate \/ CallBuildKnowledge

SpecValidate == InitValidate /\ [][NextValidate]_vars

-----------------------------------------------------------------------------
(* The score record: a JSON list in the file STATS_PATH.  An entry is a    *)
(* record; int = FALSE is a JSON value int() does not convert.             *)

Entry(v) == [int |-> TRUE, v |-> v]

RECURSIVE LoadEntries(_, _)
LoadEntries(file, n) ==
    IF n > Len(file) THEN <<>>
    ELSE IF file[n].int THEN <<file[n].v>> \o LoadEntries(file, n + 1)
    ELSE LoadEntries(file, n + 1)

\* _load_stats(): the entries int() converts, in order; [] for no file.
LoadStats(file) == LoadEntries(file, 1)

\* _save_stats(data): the file holds the list data.
SaveStats(data) == [i \in 1..Len(data) |-> Entry(data[i])]

Some(v) == <<v>>

RECURSIVE Sum(_)
Sum(s) == IF Len(s) = 0 THEN 0 ELSE Head(s) + Sum(Tail(s))

\* data[-10:]
Last10(data) ==
    IF Len(data) <= 10 THEN data ELSE SubSeq(data, Len(data) - 9, Len(data))

\* round(statistics.mean(data), 2) in hundredths; a tie goes to the even
\* hundredth.
RoundedMean(data) ==
    LET q == (100 * Sum(data)) \div Len(data)
        r == (100 * Sum(data)) % Len(data)
    IN  IF 2 * r > Len(data) THEN q + 1
        ELSE IF 2 * r < Len(data) THEN q
        ELSE IF q % 2 = 0 THEN q ELSE q + 1

\* last_solved_tries and last10_avg as _update_leaderboard_in_state sets
\* them from the file.
LeaderboardTries(file) ==
    LET data == LoadStats(file)
    IN  IF Len(data) > 0 THEN Some(data[Len(data)]) ELSE None

LeaderboardAvg(file) ==
    LET data == LoadStats(file)
    IN  IF Len(data) > 0 THEN Some(RoundedMean(Last10(data))) ELSE None

-----------------------------------------------------------------------------
(* Spec: one session of the app.  The handlers of the page are the         *)
(* actions; the secret of a new game and the typed text are drawn from     *)
(* small pools.                                                            *)

\* str.isdigit(): the ASCII digits and the other Unicode digits, of which
\* "sup2" stands for the superscript two.
OtherDigits == {"sup2"}

IsDigit(ch) == ch \in Digit \cup OtherDigits

\* clean_digits(s)
CleanDigits(s) ==
    LET kept == SelectSeq(s, IsDigit)
    IN  SubSeq(kept, 1, Min(Len(kept), N))

GameSecrets == {Word("1", "1", "2", "2", "3"), Word("1", "0", "0", "0", "0")}

RawInputs ==
    GameSecrets \cup {Word("1", "2", "3", "4", "5"), <<"1", "x", "2">>}

Init ==
    /\ \E s \in GameSecrets : FreshSession(s, "Normal")
    /\ ret = NoRet

\* The text input changed: current_input = clean_digits(typed_input).
TypeInput ==
    /\ \E raw \in RawInputs :
          /\ CleanDigits(raw) # current_input
          /\ current_input' = CleanDigits(raw)
    /\ UNCHANGED <<secret, round, grid, status, done, win, hints, error,
                   mode, stats_file, last_solved_tries, last10_avg,
                   hash_salt, ret>>

\* The mode selectbox changed.
SetMode ==
    /\ \E m \in Modes : m # mode /\ mode' = m
    /\ UNCHANGED <<secret, round, grid, status, done, win, hints,
                   current_input, error, stats_file, last_solved_tries,
                   last10_avg, hash_salt, ret>>

\* The Give Up button.
GiveUp ==
    /\ done' = TRUE
    /\ win' = FALSE
    /\ UNCHANGED <<secret, round, grid, status, hints, current_input, error,
                   mode, stats_file, last_solved_tries, last10_avg,
                   hash_salt, ret>>

\* The New Game button: init_state().
NewGame ==
    /\ Sum(LoadStats(stats_file)) < MaxTriesRecorded
    /\ \E s \in GameSecrets : secret' = s
    /\ round' = 0
    /\ grid' = EmptyGrid
    /\ status' = EmptyGrid
    /\ done' = FALSE
    /\ win' = FALSE
    /\ hints' = [r \in 1..Rows |-> <<>>]
    /\ current_input' = <<>>
    /\ error' = NoMsg
    /\ last_solved_tries' = LeaderboardTries(stats_file)
    /\ last10_avg' = LeaderboardAvg(stats_file)
    /\ ret' = NoRet
    /\ UNCHANGED <<mode, stats_file, hash_salt>>

Called(calls) == [fn |-> "submit_guess", calls |-> calls]

LengthError == [kind |-> "length", text |-> "Enter exactly 5 digits."]

\* A length check that also copies the short buffer to the active row.
SubmitShortWritesRow ==
    /\ error' = LengthError
    /\ grid' = [grid EXCEPT ![round + 1] =
                   [i \in 1..N |-> IF i <= Len(current_input)
                                   THEN current_input[i] ELSE ""]]
    /\ ret' = Called(<<>>)
    /\ UNCHANGED <<secret, round, status, done, win, hints, current_input,
                   mode, stats_file, last_solved_tries, last10_avg,
                   hash_salt>>

\* submit_guess(), lines 224-226: the buffer does not hold 5 characters.
SubmitShort ==
    /\ error' = LengthError
    /\ ret' = Called(<<>>)
    /\ UNCHANGED <<secret, round, grid, status, done, win, hints,
                   current_input, mode, stats_file, last_solved_tries,
                   last10_avg, hash_salt>>

\* A rejection that leaves the rejected guess on the active row.
SubmitRejectedWritesRow(msg) ==
    /\ error' = msg
    /\ grid' = [grid EXCEPT ![round + 1] = current_input]
    /\ ret' = Called(<<"validate">>)
    /\ UNCHANGED <<secret, round, status, done, win, hints, current_input,
                   mode, stats_file, last_solved_tries, last10_avg,
                   hash_salt>>

\* submit_guess(), lines 231-235: the validator rejected the guess.
SubmitRejected(msg) ==
    /\ error' = msg
    /\ ret' = Called(<<"validate">>)
    /\ UNCHANGED <<secret, round, grid, status, done, win, hints,
                   current_input, mode, stats_file, last_solved_tries,
                   last10_avg, hash_salt>>

\* submit_guess(), lines 237-250: the guess is the secret.
SubmitWin(guess) ==
    LET data == LoadStats(stats_file) \o <<round + 1>>
    IN  /\ grid' = [grid EXCEPT ![round + 1] = guess]
        /\ status' = [status EXCEPT ![round + 1] = EvaluateGuess(secret, guess)]
        /\ done' = TRUE
        /\ win' = TRUE
        /\ error' = NoMsg
        /\ stats_file' = SaveStats(data)
        /\ last_solved_tries' = LeaderboardTries(SaveStats(data))
        /\ last10_avg' = LeaderboardAvg(SaveStats(data))
        /\ ret' = Called(<<"validate", "evaluate_guess", "save_stats">>)
        /\ UNCHANGED <<secret, round, hints, current_input, mode, hash_salt>>

\* A miss that ends the game one round late.
SubmitMissOffByOne(guess) ==
    /\ grid' = [grid EXCEPT ![round + 1] = guess]
    /\ status' = [status EXCEPT ![round + 1] = EvaluateGuess(secret, guess)]
    /\ hints' = [hints EXCEPT ![round + 1] = GenClues(secret, guess, round)]
    /\ round' = round + 1
    /\ current_input' = <<>>
    /\ error' = NoMsg
    /\ done' = (round + 1 > Rows)
    /\ ret' = Called(<<"validate", "evaluate_guess", "gen_clues">>)
    /\ UNCHANGED <<secret, win, mode, stats_file, last_solved_tries,
                   last10_avg, hash_salt>>

\* submit_guess(), lines 237-240 and 251-257: the guess is a miss.
SubmitMiss(guess) ==
    /\ grid' = [grid EXCEPT ![round + 1] = guess]
    /\ status' = [status EXCEPT ![round + 1] = EvaluateGuess(secret, guess)]
    /\ hints' = [hints EXCEPT ![round + 1] = GenClues(secret, guess, round)]
    /\ round' = round + 1
    /\ current_input' = <<>>
    /\ error' = NoMsg
    /\ done' = (round + 1 >= Rows)
    /\ ret' = Called(<<"validate", "evaluate_guess", "gen_clues">>)
    /\ UNCHANGED <<secret, win, mode, stats_file, last_solved_tries,
                   last10_avg, hash_salt>>

\* The form was submitted: submit_guess().
SubmitGuess ==
    IF done THEN UNCHANGED vars
    ELSE IF Len(current_input) # N THEN SubmitShort
    ELSE LET v == ValidateGuessAgainstHistory(current_input, mode)
         IN  IF ~v.ok THEN SubmitRejected(v.msg)
             ELSE IF current_input = secret THEN SubmitWin(current_input)
             ELSE SubmitMiss(current_input)

Next == TypeInput \/ SetMode \/ GiveUp \/ NewGame \/ SubmitGuess

Spec == Init /\ [][Next]_vars

-----------------------------------------------------------------------------
(* SpecClues: gen_clues applied, up to twice in one process, to secrets    *)
(* and guesses that make the range clamp at both ends and stay narrow,     *)
(* under every outcome of the seeded generator.                            *)

\* The outcomes of rng.choice (4 pairs) and rng.sample (5 * 4 ordered
\* pairs of indices).
RngOutcomes == 4 * 20

HashSalts == 0..(RngOutcomes - 1)

ClueSecrets ==
    {Word("0", "0", "0", "0", "0"), Word("9", "9", "9", "9", "9"),
     Word("1", "2", "3", "4", "5"), Word("1", "1", "2", "2", "3")}

ClueGuesses ==
    {Word("0", "0", "0", "1", "0"), Word("1", "2", "3", "4", "6"),
     Word("9", "9", "9", "9", "0")}

ClueRounds == 0..(Rows - 1)

InitClues ==
    /\ \E s \in ClueSecrets : secret = s
    /\ \E salt \in HashSalts : hash_salt = salt
    /\ round = 0
    /\ grid = EmptyGrid
    /\ status = EmptyGrid
    /\ done = FALSE
    /\ win = FALSE
    /\ hints = [r \in 1..Rows |-> <<>>]
    /\ current_input = <<>>
    /\ error = NoMsg
    /\ mode = "Normal"
    /\ stats_file = <<>>
    /\ last_solved_tries = None
    /\ last10_avg = None
    /\ ret = NoRet

\* gen_clues(secret, guess, round_idx); ret keeps the call before it.
CallGenClues ==
    /\ IF ret.fn = "none" THEN TRUE ELSE ret.prev = <<>>
    /\ \E g \in ClueGuesses : \E r \in ClueRounds :
          ret' = [fn |-> "gen_clues", guess |-> g, round_idx |-> r,
                  value |-> GenClues(secret, g, r),
                  prev |-> IF ret.fn = "none" THEN <<>>
                           ELSE <<[guess |-> ret.guess,
                                   round_idx |-> ret.round_idx,
                                   value |-> ret.value]>>]
    /\ UNCHANGED <<secret, round, grid, status, done, win, hints,
                   current_input, error, mode, stats_file,
                   last_solved_tries, last10_avg, hash_salt>>

NextClues == CallGenClues

SpecClues == InitClues /\ [][NextClues]_vars

-----------------------------------------------------------------------------
(* SpecRows: _build_knowledge applied to a board on which one scored row   *)
(* has lost digits or verdicts.                                            *)

\* What a row has lost: all its verdicts, its first digit, its first
\* verdict, or everything.
RowDamages == {"verdicts_empty", "digit_empty", "verdict_empty", "all_empty"}

DamagedDigits(row, dmg) ==
    IF dmg = "all_empty" THEN EmptyRow
    ELSE IF dmg = "digit_empty" THEN [row EXCEPT ![1] = ""]
    ELSE row

DamagedVerdicts(sts, dmg) ==
    IF dmg \in {"all_empty", "verdicts_empty"} THEN EmptyRow
    ELSE IF dmg = "verdict_empty" THEN [sts EXCEPT ![1] = ""]
    ELSE sts

InitRows ==
    /\ \E s \in VSecrets : \E h \in Histories(s) : \E m \in Modes :
       \E bad \in 1..Len(h) : \E dmg \in RowDamages :
          /\ secret = s
          /\ round = Len(h)
          /\ mode = m
          /\ grid = [r \in 1..Rows |->
                        IF r > Len(h) THEN EmptyRow
                        ELSE IF r = bad THEN DamagedDigits(h[r], dmg)
                        ELSE h[r]]
          /\ status = [r \in 1..Rows |->
                          IF r > Len(h) THEN EmptyRow
                          ELSE IF r = bad
                          THEN DamagedVerdicts(EvaluateGuess(s, h[r]), dmg)
                          ELSE EvaluateGuess(s, h[r])]
    /\ done = FALSE
    /\ win = FALSE
    /\ hints = [r \in 1..Rows |-> <<>>]
    /\ current_input = <<>>
    /\ error = NoMsg
    /\ stats_file = <<>>
    /\ last_solved_tries = None
    /\ last10_avg = None
    /\ hash_salt = 0
    /\ ret = NoRet

NextRows == CallBuildKnowledge

SpecRows == InitRows /\ [][NextRows]_vars

-----------------------------------------------------------------------------
(* SpecStats: the session of Spec, started over a stats file that holds    *)
(* an entry int() does not convert.                                        *)

\* A JSON value such as "abc" or null.
Corrupt == [int |-> FALSE, v |-> 0]

StoredFiles == {<<Corrupt>>, <<Entry(3), Corrupt, Entry(4)>>}

InitStats ==
    /\ \E s \in GameSecrets : secret = s
    /\ \E f \in StoredFiles :
          /\ stats_file = f
          /\ last_solved_tries = LeaderboardTries(f)
          /\ last10_avg = LeaderboardAvg(f)
    /\ round = 0
    /\ grid = EmptyGrid
    /\ status = EmptyGrid
    /\ done = FALSE
    /\ win = FALSE
    /\ hints = [r \in 1..Rows |-> <<>>]
    /\ current_input = <<>>
    /\ error = NoMsg
    /\ mode = "Normal"
    /\ hash_salt = 0
    /\ ret = NoRet

SpecStats == InitStats /\ [][Next]_vars

-----------------------------------------------------------------------------
(* SpecClean: clean_digits applied to every text of at most MaxRawLen      *)
(* characters over two ASCII digits, a letter and a non-ASCII digit.       *)

RawChars == {"0", "7", "x", "sup2"}

RawTexts == UNION {[1..n -> RawChars] : n \in 0..MaxRawLen}

InitClean ==
    /\ \E s \in GameSecrets : FreshSession(s, "Normal")
    /\ ret = NoRet

\* cleaned_input = clean_digits(typed_input)
CallCleanDigits ==
    /\ ret = NoRet
    /\ \E raw \in RawTexts :
          ret' = [fn |-> "clean_digits", raw |-> raw,
                  value |-> CleanDigits(raw)]
    /\ UNCHANGED <<secret, round, grid, status, done, win, hints,
                   current_input, error, mode, stats_file,
                   last_solved_tries, last10_avg, hash_salt>>

NextClean == CallCleanDigits

SpecClean == InitClean /\ [][NextClean]_vars

-----------------------------------------------------------------------------
(* Claims about the scorer, checked under SpecScore.                       *)

Scored == ret.fn = "evaluate_guess"

Fixture11223 == Word("1", "1", "2", "2", "3")

Fixture21321 == Word("2", "1", "3", "2", "1")

\* The positions of guess g holding digit d that verdict v marks with tag t.
Marked(g, v, d, t) == {i \in Pos : At(g, i) = d /\ At(v, i) = t}

\* C1 (as stated): evaluate_guess("11223", "21321") returns
\* [yellow, green, yellow, green, gray].
C1_GoldenFixtureAsStated ==
    (Scored /\ secret = Fixture11223 /\ ret.guess = Fixture21321)
        => ret.value = <<"yellow", "green", "yellow", "green", "gray">>

\* C1 (amended): evaluate_guess("11223", "21321") returns
\* [yellow, green, yellow, green, yellow]: the last "1" of the guess is
\* matched by the secret's first "1", which no green used up.
C1_GoldenFixture ==
    (Scored /\ secret = Fixture11223 /\ ret.guess = Fixture21321)
        => ret.value = <<"yellow", "green", "yellow", "green", "yellow">>

C1_Witness ==
    Scored /\ secret = Fixture11223 /\ ret.guess = Fixture21321

\* C2: position i is green if and only if guess[i] = secret[i], so there
\* are as many greens as exact matches, and evaluate_guess(s, s) is all
\* green.
C2_GreenIffExactMatch ==
    Scored =>
        /\ \A i \in Pos :
              (At(ret.value, i) = "green") <=> (At(ret.guess, i) = At(secret, i))
        /\ Cardinality({i \in Pos : At(ret.value, i) = "green"})
              = Cardinality({i \in Pos : At(ret.guess, i) = At(secret, i)})
        /\ (ret.guess = secret => ret.value = [i \in 1..N |-> "green"])

\* A guess that matches the secret in its last position only and holds a
\* yellow elsewhere.
C2_Witness ==
    /\ Scored
    /\ At(ret.value, N - 1) = "green"
    /\ \A i \in 0..(N - 2) : At(ret.guess, i) # At(secret, i)
    /\ \E i \in Pos : At(ret.value, i) = "yellow"

\* C3: for every digit d, the positions of the guess holding d that are
\* marked green or yellow are no more than the occurrences of d in the
\* secret.
C3_MarksBoundedBySecret ==
    Scored =>
        \A d \in Digit :
            Cardinality(Marked(ret.guess, ret.value, d, "green")
                            \cup Marked(ret.guess, ret.value, d, "yellow"))
                <= Count(secret, d)

\* A guess holding more copies of a digit than the secret: one copy green,
\* one yellow, one gray.
C3_Witness ==
    /\ Scored
    /\ \E d \in Digit :
          /\ Count(ret.guess, d) > Count(secret, d)
          /\ Marked(ret.guess, ret.value, d, "green") # {}
          /\ Marked(ret.guess, ret.value, d, "yellow") # {}
          /\ Marked(ret.guess, ret.value, d, "gray") # {}
          /\ Cardinality(Marked(ret.guess, ret.value, d, "green")
                             \cup Marked(ret.guess, ret.value, d, "yellow"))
                = Count(secret, d)

\* C4: among the non-green positions of the guess holding digit d, no gray
\* position lies left of a yellow one: the yellows are the leftmost of
\* them, as many as the secret has copies of d not matched in place.
C4_YellowLeftToRight ==
    Scored =>
        \A d \in Digit :
            LET yellows == Marked(ret.guess, ret.value, d, "yellow")
                grays == Marked(ret.guess, ret.value, d, "gray")
                greens == Marked(ret.guess, ret.value, d, "green")
            IN  /\ \A i \in grays : \A j \in yellows : j < i
                /\ Cardinality(yellows)
                      = Min(Cardinality(yellows \cup grays),
                            Count(secret, d) - Cardinality(greens))

\* A digit with a yellow copy and, right of it, a gray copy.
C4_Witness ==
    /\ Scored
    /\ \E d \in Digit :
          \E i \in Marked(ret.guess, ret.value, d, "yellow") :
              \E j \in Marked(ret.guess, ret.value, d, "gray") : i < j

-----------------------------------------------------------------------------
(* Claims about the aggregator and the validator, checked under            *)
(* SpecValidate.                                                           *)

Validated == ret.fn = "validate"

\* The rounds scored so far.
Played == 0..(round - 1)

\* The green and yellow verdicts digit d got in round r.
MatchesIn(r, d) ==
    Cardinality({p \in Pos : /\ At(At(grid, r), p) = d
                             /\ At(At(status, r), p) \in {"green", "yellow"}})

\* C5 (as stated): the aggregated max_count[d] is at least the number of
\* occurrences of d in the secret, for every digit d.
C5_MaxCountSound ==
    \A d \in Digit :
        DictGet(BuildKnowledge(round, mode).max_count, d, DefaultMax)
            >= Count(secret, d)

\* C6: in Normal mode the validator returns Ok for every candidate and
\* every history.
C6_NormalAlwaysOk ==
    (Validated /\ mode = "Normal") => ret.value = Ok

\* Normal mode accepts, after a scored round, a candidate that Hard rejects.
C6_Witness ==
    /\ Validated
    /\ mode = "Normal"
    /\ round > 0
    /\ ret.value = Ok
    /\ ~RunChecks(BuildKnowledge(round, "Hard"), ret.guess, "Hard").ok

Scenario12345 ==
    /\ round = 1
    /\ At(grid, 0) = Word("1", "2", "3", "4", "5")
    /\ At(status, 0) = <<"green", "gray", "gray", "gray", "gray">>

\* C7: in Hard or Ultra, a candidate that differs from an earlier green at
\* its position is rejected, the reason naming a green position (1-based)
\* the candidate breaks and the digit required there; after "12345" scored
\* [green, gray, gray, gray, gray], Hard accepts "12999" and rejects
\* "22999" citing position 1.
C7_GreensStayFixed ==
    (Validated /\ mode \in {"Hard", "Ultra"}) =>
        /\ (\E r \in Played : \E p \in Pos :
               /\ At(At(status, r), p) = "green"
               /\ At(ret.guess, p) # At(At(grid, r), p))
           => /\ ~ret.value.ok
              /\ ret.value.msg.kind = "green"
              /\ \E r \in Played : \E p \in Pos :
                    /\ ret.value.msg.pos = p + 1
                    /\ At(At(status, r), p) = "green"
                    /\ At(At(grid, r), p) = ret.value.msg.digit
                    /\ At(ret.guess, p) # ret.value.msg.digit
        /\ (Scenario12345 /\ mode = "Hard") =>
              /\ ret.guess = Word("1", "2", "9", "9", "9") => ret.value = Ok
              /\ ret.guess = Word("2", "2", "9", "9", "9") =>
                    ret.value = Rejected([kind |-> "green", pos |-> 1,
                                          digit |-> "1"])

C7_Witness ==
    /\ Validated
    /\ mode = "Hard"
    /\ Scenario12345
    /\ ret.guess = Word("2", "2", "9", "9", "9")
    /\ ~ret.value.ok

Scenario11111 ==
    /\ round = 1
    /\ At(grid, 0) = Word("1", "1", "1", "1", "1")
    /\ At(status, 0) = <<"gray", "gray", "gray", "gray", "gray">>

\* C8: in Ultra, a candidate holding a digit that was guessed in an earlier
\* round and got no green or yellow there is rejected; after "11111"
\* scored all gray, a candidate holding "1" is rejected because the digit
\* is not in the number.
C8_AbsentDigitRejected ==
    (Validated /\ mode = "Ultra") =>
        /\ (\E r \in Played : \E d \in Digit :
               /\ Count(At(grid, r), d) > 0
               /\ MatchesIn(r, d) = 0
               /\ Count(ret.guess, d) > 0)
           => ~ret.value.ok
        /\ (Scenario11111 /\ Count(ret.guess, "1") > 0) =>
              ret.value = Rejected([kind |-> "absent", digit |-> "1"])

C8_Witness ==
    /\ Validated
    /\ mode = "Ultra"
    /\ Scenario11111
    /\ Count(ret.guess, "1") > 0
    /\ ret.value.msg.kind = "absent"

HardConditions(K, g) ==
    /\ \A p \in Pos : DictHas(K.greens, p) => At(g, p) = DictGet(K.greens, p, "")
    /\ \A d \in Digit : Count(g, d) >= DictGet(K.min_count, d, 0)
    /\ \A d \in Digit : \A p \in DictGet(K.banned_yellow, d, {}) : At(g, p) # d

\* C10: in Hard a candidate is accepted if and only if it matches every
\* recorded green, holds every digit d at least min_count[d] times and
\* puts no digit d on a position of banned_yellow[d]; caps and gray bans
\* cause no Hard rejection.
C10_HardEnforcesOnlyHardRules ==
    (Validated /\ mode = "Hard") =>
        (ret.value.ok <=> HardConditions(BuildKnowledge(round, "Hard"), ret.guess))

\* Hard accepts a candidate that exceeds a cap of max_count.
C10_Witness ==
    /\ Validated
    /\ mode = "Hard"
    /\ ret.value.ok
    /\ \E d \in Digit :
          Count(ret.guess, d)
              > DictGet(BuildKnowledge(round, "Hard").max_count, d, DefaultMax)

\* The caps and the position bans of Ultra on candidate g under summary K.
UltraConditions(K, g) ==
    /\ \A d \in Digit : Count(g, d) <= DictGet(K.max_count, d, DefaultMax)
    /\ \A d \in Digit : \A p \in DictGet(K.banned_all, d, {}) : At(g, p) # d

\* C11: in Ultra a candidate is accepted if and only if it meets the three
\* conditions of Hard, holds no digit d more than max_count[d] times and
\* puts no digit d on a position of banned_all[d]; so a candidate Ultra
\* accepts is accepted by Hard over the same rounds.
C11_UltraIsHardPlusCapsAndBans ==
    (Validated /\ mode = "Ultra") =>
        LET K == BuildKnowledge(round, "Ultra")
        IN  /\ ret.value.ok <=>
                  (HardConditions(K, ret.guess) /\ UltraConditions(K, ret.guess))
            /\ ret.value.ok => ValidateGuessAgainstHistory(ret.guess, "Hard").ok

\* Ultra accepts a candidate after a round that capped a digit and banned
\* a gray position of a matched digit.
C11_Witness ==
    /\ Validated
    /\ mode = "Ultra"
    /\ ret.value.ok
    /\ \E d \in Digit :
          /\ DictGet(BuildKnowledge(round, "Ultra").max_count, d, DefaultMax)
                \in 1..(N - 1)
          /\ DictGet(BuildKnowledge(round, "Ultra").banned_all, d, {})
                # DictGet(BuildKnowledge(round, "Ultra").banned_yellow, d, {})

\* The checks candidate g fails under summary K.
BreaksGreens(K, g) ==
    \E p \in Pos : DictHas(K.greens, p) /\ At(g, p) # DictGet(K.greens, p, "")

BreaksMinCounts(K, g) ==
    \E d \in Digit : Count(g, d) < DictGet(K.min_count, d, 0)

BreaksYellowBans(K, g) ==
    \E d \in Digit : \E p \in DictGet(K.banned_yellow, d, {}) : At(g, p) = d

BreaksCaps(K, g) ==
    \E d \in Digit : Count(g, d) > DictGet(K.max_count, d, DefaultMax)

BreaksAllBans(K, g) ==
    \E d \in Digit : \E p \in DictGet(K.banned_all, d, {}) : At(g, p) = d

\* C12: the reason returned is that of the first failing check in the
\* order greens, minimum counts, yellow bans, then in Ultra zero/max
\* counts and gray-derived bans; a minimum-count reason reports
\* missing = min_count[d] - the candidate's occurrences of d.
C12_FirstFailingCheckWins ==
    (Validated /\ mode \in {"Hard", "Ultra"}) =>
        LET K == BuildKnowledge(round, mode)
            g == ret.guess
            msg == ret.value.msg
        IN  /\ BreaksGreens(K, g) => msg.kind = "green"
            /\ (~BreaksGreens(K, g) /\ BreaksMinCounts(K, g)) =>
                  /\ msg.kind = "min"
                  /\ msg.mn = DictGet(K.min_count, msg.digit, 0)
                  /\ msg.needed = msg.mn - Count(g, msg.digit)
                  /\ msg.needed > 0
            /\ (~BreaksGreens(K, g) /\ ~BreaksMinCounts(K, g)
                   /\ BreaksYellowBans(K, g)) =>
                  /\ msg.kind = "yellow"
                  /\ At(g, msg.pos - 1) = msg.digit
                  /\ (msg.pos - 1) \in DictGet(K.banned_yellow, msg.digit, {})
            /\ (mode = "Ultra" /\ HardConditions(K, g) /\ BreaksCaps(K, g)) =>
                  /\ msg.kind \in {"absent", "max"}
                  /\ Count(g, msg.digit)
                        > DictGet(K.max_count, msg.digit, DefaultMax)
                  /\ (msg.kind = "absent")
                        <=> (DictGet(K.max_count, msg.digit, DefaultMax) = 0)
            /\ (mode = "Ultra" /\ HardConditions(K, g) /\ ~BreaksCaps(K, g)
                   /\ BreaksAllBans(K, g)) =>
                  /\ msg.kind = "ruled_out"
                  /\ At(g, msg.pos - 1) = msg.digit
                  /\ (msg.pos - 1) \in DictGet(K.banned_all, msg.digit, {})

\* A candidate that breaks a green and a minimum count is rejected for the
\* green.
C12_Witness ==
    /\ Validated
    /\ mode \in {"Hard", "Ultra"}
    /\ BreaksGreens(BuildKnowledge(round, mode), ret.guess)
    /\ BreaksMinCounts(BuildKnowledge(round, mode), ret.guess)
    /\ ret.value.msg.kind = "green"

-----------------------------------------------------------------------------
(* Claims about the session, checked under Spec.                           *)

\* C13: when submit_guess rejects a 5-digit guess for a Hard/Ultra
\* violation, the error is set to the validator's reason and round, the
\* status rows, the grid rows, hints, done, win, secret and the score
\* record are unchanged, as is all the rest of the session.
C13_RejectionSetsOnlyError ==
    [][(/\ ~done
        /\ Len(current_input) = N
        /\ ~ValidateGuessAgainstHistory(current_input, mode).ok
        /\ SubmitGuess)
       => (/\ error' = ValidateGuessAgainstHistory(current_input, mode).msg
           /\ error' # NoMsg
           /\ "evaluate_guess" \notin {ret'.calls[i] : i \in 1..Len(ret'.calls)}
           /\ UNCHANGED <<round, status, grid, hints, done, win, secret,
                          stats_file, last_solved_tries, last10_avg,
                          current_input, mode>>)]_vars

\* A guess was rejected in Hard or Ultra after a scored round, and the
\* active row is still empty.
C13_Witness ==
    /\ ret = Called(<<"validate">>)
    /\ mode \in {"Hard", "Ultra"}
    /\ round > 0
    /\ ~done
    /\ Len(current_input) = N
    /\ error = ValidateGuessAgainstHistory(current_input, mode).msg
    /\ error.kind \in {"green", "min", "yellow", "absent", "max", "ruled_out"}
    /\ grid[round + 1] = EmptyRow
    /\ status[round + 1] = EmptyRow

\* C14: when submit_guess runs on a buffer whose length is not 5 it sets
\* the error "Enter exactly 5 digits.", calls neither the validator nor the
\* scorer, and leaves round, grid, status, hints, done and win unchanged.
C14_ShortBufferSetsLengthError ==
    [][(~done /\ Len(current_input) # N /\ SubmitGuess)
       => (/\ error' = LengthError
           /\ error'.text = "Enter exactly 5 digits."
           /\ ret' = Called(<<>>)
           /\ UNCHANGED <<round, grid, status, hints, done, win>>)]_vars

\* submit_guess ran on a buffer of two digits, and on an empty buffer
\* after a scored round.
C14_Witness ==
    /\ ret = Called(<<>>)
    /\ error = LengthError
    /\ Len(current_input) \in 1..(N - 1)
    /\ round > 0
    /\ ~done
    /\ grid[round + 1] = EmptyRow

-----------------------------------------------------------------------------
(* Claims about the hints, checked under SpecClues.                        *)

Hinted == ret.fn = "gen_clues"

\* The text holds the 5 characters of word w in a row.
Contains(text, w) ==
    \E i \in 1..(Len(text) - N + 1) : SubSeq(text, i, i + N - 1) = w

\* C15: for every secret, guess other than the secret, round index and
\* selection of two facts, neither returned hint string contains the secret
\* string.
C15_HintsNeverContainSecret ==
    Hinted =>
        \A k \in 1..Len(ret.value) : ~Contains(HintText(ret.value[k]), secret)

\* Word w is a secret the fact c allows.
Consistent(c, w) ==
    CASE c.kind = "range" -> IntOf(c.lo) <= IntOf(w) /\ IntOf(w) <= IntOf(c.hi)
      [] c.kind = "parity" -> c.even <=> (IntOf(w) % 2 = 0)
      [] c.kind = "sum_mod3" ->
            c.value = (DigitVal(w[1]) + DigitVal(w[2]) + DigitVal(w[3])
                         + DigitVal(w[4]) + DigitVal(w[5])) % 3
      [] c.kind = "pair" ->
            LET di == DigitVal(w[c.first])
                dj == DigitVal(w[c.second])
            IN  c.rel = (IF di < dj THEN "<" ELSE IF di > dj THEN ">" ELSE "=")
      [] c.kind = "repeat" ->
            c.repeats <=> (Cardinality({w[i] : i \in 1..N}) < N)

\* Words among which every fact but a range, if it allows any secret,
\* allows two that differ at any given position.
ProbeWords ==
    WordsOver({"0", "3"})
        \cup {[i \in 1..N |-> DigitChars[((a + b * i) % 10) + 1]] :
                 a \in 0..9, b \in {1, 9}}

\* The secrets fact c allows hold two that differ at position p.  The
\* numbers lo..hi of a range do exactly when lo and hi differ at or before
\* position p.
LeavesOpen(c, p) ==
    IF c.kind = "range"
    THEN IntOf(c.lo) \div Pow10(N - 1 - p) # IntOf(c.hi) \div Pow10(N - 1 - p)
    ELSE \E w1, w2 \in ProbeWords :
            Consistent(c, w1) /\ Consistent(c, w2) /\ At(w1, p) # At(w2, p)

\* C16: for every hint string gen_clues can return and every position p,
\* the secrets consistent with the hint hold two that differ at p.
C16_NoHintPinsAPosition ==
    Hinted =>
        \A k \in 1..Len(ret.value) : \A p \in Pos : LeavesOpen(ret.value[k], p)

\* The index of a fact among the five candidates.
FactIndex(c) ==
    CASE c.kind = "range" -> 0
      [] c.kind = "parity" -> 1
      [] c.kind = "sum_mod3" -> 2
      [] c.kind = "pair" -> 3
      [] c.kind = "repeat" -> 4

\* C17: gen_clues returns exactly two hints, the candidate facts of two
\* distinct indices in the order range, parity, digit-sum mod 3,
\* adjacent-pair relation, repetition, the lower index first whatever the
\* order the indices were sampled in.
C17_TwoFactsInCandidateOrder ==
    Hinted =>
        LET seed == HashSeed(secret, ret.round_idx)
            clues == Clues(secret, ret.guess, seed)
            pick == RngSample(seed)
        IN  /\ Len(ret.value) = 2
            /\ Len(clues) = 5
            /\ \A i \in 0..4 : FactIndex(At(clues, i)) = i
            /\ \E a, b \in 0..4 :
                  /\ a < b
                  /\ {a, b} = {pick[1], pick[2]}
                  /\ ret.value = <<At(clues, a), At(clues, b)>>
            /\ FactIndex(ret.value[1]) < FactIndex(ret.value[2])

\* The higher index was sampled first and its fact is returned second.
C17_Witness ==
    /\ Hinted
    /\ RngSample(HashSeed(secret, ret.round_idx))[1]
          > RngSample(HashSeed(secret, ret.round_idx))[2]
    /\ FactIndex(ret.value[2])
          = RngSample(HashSeed(secret, ret.round_idx))[1]
    /\ FactIndex(ret.value[1])
          = RngSample(HashSeed(secret, ret.round_idx))[2]

TwoCalls == Hinted /\ ret.prev # <<>>

-----------------------------------------------------------------------------
(* Claims about the aggregator over whole histories, checked under         *)
(* SpecValidate.                                                           *)

\* The positions where digit d got verdict t in a scored round.
MarkedInHistory(d, t) ==
    {p \in Pos : \E r \in Played : p \in Marked(At(grid, r), At(status, r), d, t)}

\* The positions where digit d was gray in a round that gave d a green or
\* a yellow.
GrayBesideMatch(d) ==
    {p \in Pos : \E r \in Played :
        /\ p \in Marked(At(grid, r), At(status, r), d, "gray")
        /\ MatchesIn(r, d) >= 1}

\* C20: for every history, mode and digit d, banned_yellow[d] is a subset
\* of banned_all[d]; outside Ultra the two are equal; in Ultra
\* banned_all[d] is the yellow positions of d plus the positions where d
\* was gray in a round that gave d a green or yellow; greens, min_count,
\* max_count and banned_yellow are the same in all modes.
C20_BannedAllExtendsBannedYellow ==
    ret = NoRet =>
        LET U == BuildKnowledge(round, "Ultra")
        IN  \A m \in Modes :
               LET K == BuildKnowledge(round, m)
               IN  /\ \A d \in Digit :
                         LET yellow == DictGet(K.banned_yellow, d, {})
                             all == DictGet(K.banned_all, d, {})
                         IN  /\ yellow \subseteq all
                             /\ yellow = MarkedInHistory(d, "yellow")
                             /\ m # "Ultra" => all = yellow
                             /\ m = "Ultra"
                                   => all = yellow \cup GrayBesideMatch(d)
                   /\ K.greens = U.greens
                   /\ K.min_count = U.min_count
                   /\ K.max_count = U.max_count
                   /\ K.banned_yellow = U.banned_yellow

\* A history in which a digit has a yellow position and, in Ultra, a gray
\* position banned on top of it.
C20_Witness ==
    /\ ret = NoRet
    /\ round > 0
    /\ \E d \in Digit :
          /\ DictGet(BuildKnowledge(round, "Ultra").banned_yellow, d, {}) # {}
          /\ DictGet(BuildKnowledge(round, "Ultra").banned_all, d, {})
                # DictGet(BuildKnowledge(round, "Ultra").banned_yellow, d, {})
          /\ DictGet(BuildKnowledge(round, "Hard").banned_all, d, {})
                = DictGet(BuildKnowledge(round, "Hard").banned_yellow, d, {})

\* C19: _build_knowledge called again over the same rounds and mode
\* returns the same (greens, min_count, max_count, banned_yellow,
\* banned_all), and a call changes neither the grid, the status rows nor
\* the round counter.
C19_AggregationReadOnly ==
    [][(ret'.fn = "build_knowledge" /\ CallBuildKnowledge)
       => (/\ UNCHANGED <<grid, status, round>>
           /\ ret'.value = BuildKnowledge(round, mode)
           /\ ret'.value = BuildKnowledge(round', mode'))]_vars

\* The aggregator was called over a history with a green, a minimum and a
\* cap.
C19_Witness ==
    /\ ret.fn = "build_knowledge"
    /\ round > 0
    /\ ret.value.greens # <<>>
    /\ ret.value.min_count # <<>>
    /\ ret.value.max_count # <<>>
    /\ ret.value = BuildKnowledge(round, mode)

-----------------------------------------------------------------------------
(* Claims about rows with missing data, checked under SpecRows.            *)

Aggregated == ret.fn = "build_knowledge"

\* Row r has an empty digit cell or an empty verdict tag.
Partial(r) ==
    \E i \in Pos : At(At(grid, r), i) = "" \/ At(At(status, r), i) = ""

\* The rows of board g without row r.
WithoutRow(g, r) ==
    [i \in 1..(Rows - 1) |-> IF i <= r THEN g[i] ELSE g[i + 1]]

\* The summary of the history without row r.
KnowledgeWithout(r) ==
    FoldRounds(WithoutRow(grid, r), WithoutRow(status, r), 0, round - 1,
               mode, NoKnowledge)

\* Two summaries answer every lookup alike.
SameSummary(K1, K2) ==
    /\ \A p \in Pos :
          /\ DictHas(K1.greens, p) <=> DictHas(K2.greens, p)
          /\ DictGet(K1.greens, p, "") = DictGet(K2.greens, p, "")
    /\ \A d \in Digit :
          /\ DictGet(K1.min_count, d, 0) = DictGet(K2.min_count, d, 0)
          /\ DictGet(K1.max_count, d, DefaultMax)
                = DictGet(K2.max_count, d, DefaultMax)
          /\ DictGet(K1.banned_yellow, d, {}) = DictGet(K2.banned_yellow, d, {})
          /\ DictGet(K1.banned_all, d, {}) = DictGet(K2.banned_all, d, {})

\* C21 (as stated): for every row below upto_round with an empty digit
\* cell or an empty verdict tag, _build_knowledge returns the summary of
\* the history without that row.
C21_PartialRowsSkipped ==
    Aggregated =>
        \A r \in Played :
            Partial(r) => SameSummary(ret.value, KnowledgeWithout(r))

-----------------------------------------------------------------------------
(* Claims about the score record, checked under SpecStats.                 *)

\* C22 (as stated): after each operation the stored record is the record
\* before it with at most one integer appended; winning a game appends
\* exactly round + 1, in 1..6; no other step appends; entries stored
\* before are never changed or removed, also when the file held corrupt
\* entries.
C22_ScoreRecordAppendOnly ==
    [][/\ \/ stats_file' = stats_file
          \/ \E tries \in 1..Rows : stats_file' = Append(stats_file, Entry(tries))
       /\ (win' /\ ~win) => stats_file' = Append(stats_file, Entry(round + 1))
       /\ ~(win' /\ ~win) => stats_file' = stats_file]_vars

-----------------------------------------------------------------------------
(* Claims about clean_digits, checked under SpecClean.                     *)

Cleaned == ret.fn = "clean_digits"

\* C23 (as stated): clean_digits(raw) has at most 5 characters, each one
\* of "0".."9", and clean_digits applied to it returns it unchanged.
C23_CleanDigitsAsciiOnly ==
    Cleaned =>
        /\ Len(ret.value) <= N
        /\ \A i \in 1..Len(ret.value) : ret.value[i] \in Digit
        /\ CleanDigits(ret.value) = ret.value

-----------------------------------------------------------------------------
(* Claims about the course of a game, checked under Spec.                  *)

\* The rows that hold a verdict.
ScoredRows == {r \in 0..(Rows - 1) : At(status, r) # EmptyRow}

\* submit_guess runs on a 5-digit buffer the validator accepts.
AcceptedSubmit ==
    /\ ~done
    /\ Len(current_input) = N
    /\ ValidateGuessAgainstHistory(current_input, mode).ok
    /\ SubmitGuess

\* C24: within a game round starts at 0, never decreases and never
\* exceeds 6; an accepted guess writes the verdict row at index round, which
\* was empty, and no step but New Game changes a verdict row written
\* before; the game is done when a guess equals the secret or the sixth
\* miss is scored, so round <= 5 whenever the game is not done; once done,
\* submit_guess changes nothing.
C24_RoundHistoryAppendOnly ==
    /\ [](/\ round \in 0..Rows
          /\ ~done => round <= Rows - 1
          /\ ScoredRows \subseteq 0..round
          /\ Cardinality(ScoredRows) <= Rows)
    /\ [][/\ NewGame => round' = 0 /\ status' = EmptyGrid
          /\ ~NewGame =>
                /\ round' \in {round, round + 1}
                /\ \A r \in ScoredRows : At(status', r) = At(status, r)
          /\ AcceptedSubmit =>
                /\ At(status, round) = EmptyRow
                /\ At(status', round) = EvaluateGuess(secret, current_input)
                /\ current_input = secret => done' /\ round' = round
                /\ (current_input # secret /\ round = Rows - 1)
                      => done' /\ round' = Rows
                /\ (current_input # secret /\ round < Rows - 1) => ~done'
          /\ (done /\ SubmitGuess) => UNCHANGED vars]_vars

\* The sixth miss was scored: six verdict rows, round 6, done, not won.
C24_Witness ==
    /\ round = Rows
    /\ done
    /\ ~win
    /\ ScoredRows = 0..(Rows - 1)
    /\ ret = Called(<<"validate", "evaluate_guess", "gen_clues">>)

-----------------------------------------------------------------------------
(* Claims about the guesses the validator lets through, checked under      *)
(* SpecValidate.                                                           *)

\* The green and yellow verdicts digit d gets when guess g is scored.
MatchesOf(g, d) ==
    Cardinality(Marked(g, EvaluateGuess(secret, g), d, "green")
                   \cup Marked(g, EvaluateGuess(secret, g), d, "yellow"))

\* C25: when a guess is accepted under Hard or Ultra, every digit d gets
\* in that round at least as many green and yellow verdicts as in every
\* earlier scored round, so that min_count[d] then equals that round's
\* matches of d.
C25_MatchesNeverDecrease ==
    (Validated /\ mode \in {"Hard", "Ultra"} /\ ret.value.ok) =>
        LET K == BuildKnowledge(round, mode)
        IN  \A d \in Digit :
               /\ \A r \in Played : MatchesOf(ret.guess, d) >= MatchesIn(r, d)
               /\ Max(DictGet(K.min_count, d, 0), MatchesOf(ret.guess, d))
                     = MatchesOf(ret.guess, d)

\* Hard accepted a miss that holds more copies of a matched digit than an
\* earlier round matched.
C25_Witness ==
    /\ Validated
    /\ mode = "Hard"
    /\ ret.value.ok
    /\ ret.guess # secret
    /\ round >= 1
    /\ \E d \in Digit : \E r \in Played :
          MatchesIn(r, d) >= 1 /\ MatchesOf(ret.guess, d) > MatchesIn(r, d)

-----------------------------------------------------------------------------
(* Claims about the true secret as a candidate, checked under Spec.        *)

\* C26: in every state of a game that is not over, the validator in Ultra
\* mode accepts the true secret.
C26_UltraAcceptsSecret ==
    ~done => ValidateGuessAgainstHistory(secret, "Ultra").ok

\* C27: in every state of a game that is not over, the validator in Hard
\* mode accepts the true secret.
C27_HardAcceptsSecret ==
    ~done => ValidateGuessAgainstHistory(secret, "Hard").ok

\* After three scored misses that left greens, minimum counts and yellow
\* bans, the session being in Hard mode, Hard accepts the secret and
\* rejects an earlier miss.
C27_Witness ==
    /\ ~done
    /\ mode = "Hard"
    /\ round >= 3
    /\ LET K == BuildKnowledge(round, "Hard")
       IN  /\ K.greens # <<>>
           /\ K.min_count # <<>>
           /\ K.banned_yellow # <<>>
    /\ ValidateGuessAgainstHistory(secret, "Hard").ok
    /\ ~ValidateGuessAgainstHistory(At(grid, 0), "Hard").ok

-----------------------------------------------------------------------------
(* Claims about the summary as a whole, checked under SpecValidate.        *)

\* C28: in every state of a game that is not over there is, for the active
\* mode, a 5-digit candidate that the validator accepts.
C28_NoDeadEnd ==
    ~done =>
        \/ ValidateGuessAgainstHistory(secret, mode).ok
        \/ LET K == BuildKnowledge(round, mode)
           IN  \E c \in WordsOver(Digit) :
                  IF ~ModeGated(mode) THEN TRUE ELSE RunChecks(K, c, mode).ok

\* C29: the summary holds min_count[d] <= max_count[d] for every digit d,
\* max_count[d] being 5 for a digit that has no cap.
C29_MinAtMostMax ==
    LET K == BuildKnowledge(round, mode)
    IN  \A d \in Digit :
           DictGet(K.min_count, d, 0) <= DictGet(K.max_count, d, DefaultMax)

-----------------------------------------------------------------------------
(* Claims about the end of a game, checked under Spec.                     *)

\* C30: win implies done and that the last scored guess is the secret, and
\* once win is True it stays True under every operation but New Game.
C30_WinStable ==
    /\ [](win => /\ done
                  /\ At(grid, round) = secret
                  /\ At(status, round) = [i \in 1..N |-> "green"])
    /\ [][(win /\ ~NewGame) => win']_vars

=============================================================================
